---- MODULE Spec2Model ----
(***************************************************************************)
(* A model of jakelime/pareto-plots.                                       *)
(*                                                                         *)
(*   src/pareto/utils.py  generate_toy_story_machine_names: the name pool  *)
(*                        (cartesian product), its shuffle, the slice and  *)
(*                        the "Prefix-Suffix" formatting.                  *)
(*   src/main.py          the utilization script: synthesis of the table,  *)
(*                        the CSV export, the Pareto and heatmap views and *)
(*                        the HTML export.                                 *)
(*                                                                         *)
(* Specifications:                                                         *)
(*   SpecNames  one call of generate_toy_story_machine_names(count)        *)
(*   Spec       one run of main.py                                         *)
(*   SpecRerun  main.py run again and again over the same output files     *)
(***************************************************************************)
EXTENDS Integers, Sequences, FiniteSets, TLC

VARIABLES
  u_pc,            \* utils.py: "ready" before the call, "returned" after it
  u_count,         \* utils.py: the count argument of the call
  machine_names,   \* utils.py: the list the call returned
  pc,              \* main.py: the script's position
  machine_count,   \* main.py:16, the count the script asks names for
  py_rng,          \* main.py: the state of Python's global `random` generator
  np_rng,          \* main.py: the state of numpy's global generator
  names,           \* main.py:16
  df,              \* main.py:18-48, the table, a sequence of rows
  df_raw,          \* main.py:50, the snapshot
  csv_file,        \* output-machine_utilization_inverted_pareto.csv
  df_pareto,       \* main.py:75-78
  df_heatmap,      \* main.py:111-113
  z_data,          \* main.py:121, the grid
  fig,             \* main.py:62-199, the figure's traces
  html_file,       \* combined_figure_a4.html
  error            \* the exception that ended the run, or NoError

u_vars == <<u_pc, u_count, machine_names>>
m_vars ==
  <<pc, machine_count, py_rng, np_rng, names, df, df_raw, csv_file, df_pareto,
    df_heatmap, z_data, fig, html_file, error>>
vars == <<u_vars, m_vars>>

Min(a, b) == IF a <= b THEN a ELSE b
Max(a, b) == IF a >= b THEN a ELSE b

\* TRUE, for a sequence, function or record v.  TLC computes an operator's
\* argument when it is first read; reading it here keeps a long loop from
\* piling up one unread argument per round.
Forced(v) == DOMAIN v = DOMAIN v

\* A loop: acc = Step(acc, i) for i = lo, lo + 1, ..., hi, in that order
\* (split in halves, the first half run before the second).  acc is a
\* sequence, a function or a record.
RECURSIVE FoldRange(_, _, _, _)
FoldRange(Step(_, _), acc, lo, hi) ==
  IF lo > hi THEN acc
  ELSE IF lo = hi THEN Step(acc, lo)
  ELSE LET mid  == (lo + hi) \div 2
           left == FoldRange(Step, acc, lo, mid)
       IN  IF Forced(left) THEN FoldRange(Step, left, mid + 1, hi) ELSE acc

(***************************************************************************)
(* src/pareto/utils.py                                                     *)
(***************************************************************************)

\* utils.py:23-100, the list literal as written.
prefixes ==
  <<
     "Buzz", "Woody", "Jessie", "Rex", "Hamm", "Slinky",
     "BoPeep", "Alien", "Zurg", "Lotso", "Star", "Pizza",
     "Claw", "Bullseye", "Andy", "Infini", "Beyond", "RC",
     "Tricera", "Bucket", "GreenArmy", "Dolly", "Trixie", "PotatoHead",
     "Forky", "Ducky", "Bunny", "Caboom", "Gabby", "Peas",
     "Wheezy", "Barbie", "Ken", "Etch", "Rocky", "CombatCarl",
     "Janie", "Sharky", "Chuckles", "Twitch", "Stretch", "Chunk",
     "Sparks", "RoadRunner", "Linguini", "Sid", "Sunnyside", "AlToy",
     "ToyBarn", "Pawn", "Rocket", "SpaceRanger", "Sheriff", "Deputy",
     "WildWest", "Playhouse", "Cloud", "Plasma", "Laser", "Power",
     "Friend", "Loyal", "Playtime", "Adventure", "Destiny", "Mission",
     "Dinoco", "Sky", "Reach", "Garage", "Attic", "Dumpster",
     "TriCounty", "Ceiling", "Rebel"
  >>

\* utils.py:103-178, the list literal as written.
suffixes ==
  <<
     "Core", "Server", "Node", "Unit", "Engine", "Bot",
     "Link", "System", "Hub", "Module", "Command", "Bay",
     "Delta", "Forge", "Relay", "Matrix", "Guard", "Pilot",
     "Transit", "Compute", "Box", "Cluster", "Cloud", "Stack",
     "Layer", "Proxy", "Gateway", "Vault", "Array", "Cache",
     "Stream", "Beacon", "Conduit", "Frame", "Host", "Grid",
     "Fabric", "Zone", "Cell", "Router", "Switch", "Worker",
     "Handler", "Agent", "Controller", "Manager", "Monitor", "Supervisor",
     "Director", "Keeper", "Logger", "Scanner", "Indexer", "Pylon",
     "Sentinel", "Nexus", "Orbit", "Vector", "Chronos", "Atlas",
     "Titan", "Nova", "Xfer", "Port", "Pipe", "Data",
     "Wire", "Beam", "Drive", "Logic", "Output", "Input",
     "Terminal"
  >>

\* The model runs the function over the first NumPrefixes prefixes and the
\* first NumSuffixes suffixes of the lists: MaxVocab words in all.
MaxVocab == 4
\* How far past the pool size the requested count goes.
MaxOver == 2

NumPrefixes == (MaxVocab + 1) \div 2
NumSuffixes == MaxVocab \div 2
PrefixesUsed == SubSeq(prefixes, 1, Min(NumPrefixes, Len(prefixes)))
SuffixesUsed == SubSeq(suffixes, 1, Min(NumSuffixes, Len(suffixes)))

\* itertools.product(prefixes, suffixes): the pairs, the last list varying
\* fastest.
Product(ps, ss) ==
  [k \in 1..(Len(ps) * Len(ss)) |->
     <<ps[((k - 1) \div Len(ss)) + 1], ss[((k - 1) % Len(ss)) + 1]>>]

all_combinations == Product(PrefixesUsed, SuffixesUsed)
PoolSize == Len(all_combinations)

\* The size of the pool of the lists as written (utils.py:188).
FullPoolSize == Len(prefixes) * Len(suffixes)

Swap(x, i, j) == [x EXCEPT ![i] = x[j], ![j] = x[i]]

\* random.shuffle(x), Fisher-Yates:
\*   for i in reversed(range(1, len(x))): j = randbelow(i + 1); x[i], x[j] = x[j], x[i]
\* ShuffleFrom(x, i) is the set of lists the loop can leave, run from index i
\* (0-based) down to 1, over every value randbelow can return.
RECURSIVE ShuffleFrom(_, _)
ShuffleFrom(x, i) ==
  IF i < 1 THEN {x}
  ELSE UNION {ShuffleFrom(Swap(x, i + 1, j + 1), i - 1) : j \in 0..i}

\* A draw with replacement (random.choices(x, k=len(x))) in place of the
\* shuffle: every list of Len(x) elements of x.
ShuffleWithReplacement(x) ==
  {[k \in 1..Len(x) |-> x[f[k]]] : f \in [1..Len(x) -> 1..Len(x)]}

Shuffle(x) == ShuffleFrom(x, Len(x) - 1)

\* A slice that stops one short of the end of the list.
SliceToShort(x, count) ==
  IF count >= 0 THEN SubSeq(x, 1, Min(count, Len(x) - 1))
  ELSE SubSeq(x, 1, Max(0, Len(x) + count))

\* x[:count], Python's slice: a count past the end stops at the end, a
\* negative count drops that many elements from the end.
SliceTo(x, count) ==
  IF count >= 0 THEN SubSeq(x, 1, Min(count, Len(x)))
  ELSE SubSeq(x, 1, Max(0, Len(x) + count))

\* f"{prefix}-{suffix}"
FormatName(pair) == pair[1] \o "-" \o pair[2]

\* The function's result when random.shuffle leaves the pool as `shuffled`.
generate_toy_story_machine_names(count, shuffled) ==
  LET selected_combinations == SliceTo(shuffled, count)
  IN  [k \in 1..Len(selected_combinations) |->
         FormatName(selected_combinations[k])]

Counts == (-1)..(PoolSize + MaxOver)

(***************************************************************************)
(* Floating point.  The columns of the table are float64; the model keeps  *)
(* the format (a signed significand of MantBits bits and a binary          *)
(* exponent, every operation rounded to nearest, ties to even) with a      *)
(* significand short enough for the arithmetic to stay within TLC's        *)
(* integers.  A float is [m |-> significand, e |-> exponent], its value     *)
(* m * 2^e, with m = 0 or 2^(MantBits-1) <= |m| < 2^MantBits.               *)
(***************************************************************************)
MantBits == 12

Abs(n) == IF n < 0 THEN -n ELSE n
Sign(n) == IF n < 0 THEN -1 ELSE IF n > 0 THEN 1 ELSE 0

RECURSIVE BitLen(_)
BitLen(a) == IF a = 0 THEN 0 ELSE 1 + BitLen(a \div 2)

FZero == [m |-> 0, e |-> 0]

\* The float nearest to n * 2^e.
Normalise(n, e) ==
  IF n = 0 THEN FZero
  ELSE
    LET a == Abs(n)
        b == BitLen(a)
    IN  IF b <= MantBits
        THEN [m |-> n * 2^(MantBits - b), e |-> e - (MantBits - b)]
        ELSE
          LET d  == 2^(b - MantBits)
              q  == a \div d
              r  == a % d
              up == (2 * r > d) \/ (2 * r = d /\ q % 2 = 1)
              q2 == IF up THEN q + 1 ELSE q
          IN  IF q2 = 2^MantBits
              THEN [m |-> Sign(n) * 2^(MantBits - 1), e |-> e + (b - MantBits) + 1]
              ELSE [m |-> Sign(n) * q2, e |-> e + (b - MantBits)]

FromInt(n) == Normalise(n, 0)
FNeg(x) == [m |-> -x.m, e |-> x.e]

FAdd(x, y) ==
  IF x.m = 0 THEN y
  ELSE IF y.m = 0 THEN x
  ELSE
    LET hi == IF x.e >= y.e THEN x ELSE y
        lo == IF x.e >= y.e THEN y ELSE x
        d  == hi.e - lo.e
    IN  IF d > MantBits + 2 THEN hi
        ELSE Normalise(hi.m * 2^d + lo.m, lo.e)

FSub(x, y) == FAdd(x, FNeg(y))
FMul(x, y) == Normalise(x.m * y.m, x.e + y.e)

\* Long division: n more bits of the quotient rem / b, <<quotient, remainder>>.
RECURSIVE DivBits(_, _, _, _)
DivBits(q, rem, b, n) ==
  IF n = 0 THEN <<q, rem>>
  ELSE IF 2 * rem >= b THEN DivBits(2 * q + 1, 2 * rem - b, b, n - 1)
       ELSE DivBits(2 * q, 2 * rem, b, n - 1)

RECURSIVE ScaleUp(_, _, _)
\* <<a', s>>: a doubled s times until a' >= b.
ScaleUp(a, b, s) == IF a >= b THEN <<a, s>> ELSE ScaleUp(2 * a, b, s + 1)

RECURSIVE ScaleDown(_, _, _)
\* <<b', s>>: b doubled s times while 2 * b' <= a.
ScaleDown(a, b, s) == IF 2 * b > a THEN <<b, s>> ELSE ScaleDown(a, 2 * b, s + 1)

\* The float nearest to (a / b) * 2^e, for integers a >= 0 and b > 0.
DivRound(a, b, e) ==
  IF a = 0 THEN FZero
  ELSE
    LET up == ScaleUp(a, b, 0)
        dn == ScaleDown(up[1], b, 0)
        \* dn[1] <= up[1] < 2 * dn[1]: the quotient lies in [1, 2)
        qr == DivBits(1, up[1] - dn[1], dn[1], MantBits)
        sticky == IF qr[2] # 0 THEN 1 ELSE 0
    IN  Normalise(2 * qr[1] + sticky, e + dn[2] - up[2] - MantBits - 1)

\* int / int, true division.
FDivInt(a, b) ==
  LET r == DivRound(Abs(a), Abs(b), 0)
  IN  IF Sign(a) * Sign(b) < 0 THEN FNeg(r) ELSE r

FDiv(x, y) ==
  LET r == DivRound(Abs(x.m), Abs(y.m), x.e - y.e)
  IN  IF Sign(x.m) * Sign(y.m) < 0 THEN FNeg(r) ELSE r

FLt(x, y) ==
  LET sx == Sign(x.m)
      sy == Sign(y.m)
  IN  IF sx # sy THEN sx < sy
      ELSE IF sx = 0 THEN FALSE
      ELSE IF sx > 0 THEN (x.e < y.e) \/ (x.e = y.e /\ x.m < y.m)
      ELSE (x.e > y.e) \/ (x.e = y.e /\ x.m < y.m)

FLe(x, y) == x = y \/ FLt(x, y)

\* astype(int) of a float: truncation toward zero.
Trunc(x) ==
  IF x.e >= 0 THEN x.m * 2^(x.e)
  ELSE Sign(x.m) * (Abs(x.m) \div 2^(-x.e))

(***************************************************************************)
(* src/main.py                                                             *)
(***************************************************************************)

\* The largest count the script is run with.
MaxCount == 101
\* The generators' states after import, seeded from the system's entropy, are
\* drawn from 0..MaxEntropy.
MaxEntropy == 2

seed == 42
total_hours_year == 8760
min_idle_hours == 50
scale_factor == 8000
grid_size == 10

\* A file is the sequence of what the path holds: nothing before the first
\* write, the one document written after it.
NotWritten == <<>>
Written(content) == <<content>>
NoError == [type |-> "None", message |-> ""]

\* main.py:10-11, the placeholder: [f"Machine_{i + 1}" for i in range(count)]
placeholder_machine_names(n) == [i \in 1..Max(n, 0) |-> "Machine_" \o ToString(i)]

\* Python's `random` generator.  The model keeps what the script relies on:
\* the state after seed(a) is a function of a, and every draw is a function
\* of the state.  random() is state / PyModulus.
PyModulus == 2^8
PySeed(a) == a % PyModulus
PyNext(s) == (s * 13 + 7) % PyModulus

\* random.choices(population, k=k): population[floor(random() * n)], k times.
\* [out |-> the list, state |-> the generator's state after the draws].
Choices(population, k, s) ==
  FoldRange(LAMBDA acc, j :
              LET s2 == PyNext(acc.state)
                  i  == (s2 * Len(population)) \div PyModulus
              IN  [out |-> Append(acc.out, population[i + 1]), state |-> s2],
            [out |-> <<>>, state |-> s], 1, k)

\* [0.3, 0.4, 0.5]
target_choices == <<FDivInt(3, 10), FDivInt(4, 10), FDivInt(5, 10)>>

\* numpy's global generator, never seeded by the script.  A draw of
\* np.random.pareto is a non-negative float, a function of the state: here
\* state * 2^-(NpBits - 1), a value in [0, 2).
NpBits == 12
NpModulus == 2^NpBits
NpNext(s) == (s * 1229 + 1) % NpModulus
ParetoSample(s) == Normalise(s, -(NpBits - 1))

\* np.random.pareto(shape_param, k): k draws.
Pareto(k, s) ==
  FoldRange(LAMBDA acc, j :
              LET s2 == NpNext(acc.state)
              IN  [out |-> Append(acc.out, ParetoSample(s2)), state |-> s2],
            [out |-> <<>>, state |-> s], 1, k)

\* main.py:31-33: (sample * scale_factor + min_idle_hours).astype(int)
IdleHours(sample) ==
  Trunc(FAdd(FMul(sample, FromInt(scale_factor)), FromInt(min_idle_hours)))

\* A clip that forgets the lower bound.
ClipUpperOnly(x, lower, upper) == Min(x, upper)

\* Series.clip(lower, upper): minimum(maximum(x, lower), upper)
Clip(x, lower, upper) == Min(Max(x, lower), upper)

\* main.py:36-40
UtilizedHours(total, idle) == Clip(total - idle, 0, total)

\* main.py:18-44, one row of the table before total_idle_pct.
Row(name, target, sample) ==
  LET idle     == IdleHours(sample)
      utilized == UtilizedHours(total_hours_year, idle)
      rate     == FDivInt(utilized, total_hours_year)
      norm     == FDiv(rate, target)
  IN  [machine_name |-> name,
       target_util_rate |-> target,
       total_hours_year |-> total_hours_year,
       idle_hours_year |-> idle,
       utilized_hours_year |-> utilized,
       utilization_rate |-> rate,
       utilization_rate_normalized |-> norm,
       under_utilized_rate_normalized |-> FSub(FromInt(1), norm)]

\* Series.sum() of an integer column.
IntSum(rows, col) ==
  FoldRange(LAMBDA acc, i : [sum |-> acc.sum + rows[i][col]],
            [sum |-> 0], 1, Len(rows)).sum

\* One record with one more field.
WithField(r, name, value) ==
  [f \in DOMAIN r \cup {name} |-> IF f = name THEN value ELSE r[f]]

\* main.py:46-48.  A table with rows has a positive sum (every idle_hours_year
\* is at least min_idle_hours); a table without rows divides nothing.
WithIdlePct(rows) ==
  LET total_idle_hours == IntSum(rows, "idle_hours_year")
  IN  [i \in 1..Len(rows) |->
         WithField(rows[i], "total_idle_pct",
                   FMul(FDivInt(rows[i].idle_hours_year, total_idle_hours),
                        FromInt(100)))]

\* main.py:18-48, the table.
Table(nms, targets, samples) ==
  WithIdlePct([i \in 1..Len(nms) |-> Row(nms[i], targets[i], samples[i])])

Column(rows, col) == [i \in 1..Len(rows) |-> rows[i][col]]

\* Whether row x sorts after row r in a list sorted descending by col.
\* pandas' default sort (quicksort) leaves the order of rows with equal keys
\* open: with ties_reversed they come out in reverse of their order in the
\* input, without it in that order.
SortsAfter(x, r, col, ties_reversed) ==
  IF ties_reversed THEN FLe(x[col], r[col]) ELSE FLt(x[col], r[col])

\* Where row r goes in `sorted`: the first position in lo..hi whose row sorts
\* after r, or hi + 1 (by bisection: the rows that sort after r are at the end).
RECURSIVE InsertPos(_, _, _, _, _, _)
InsertPos(sorted, r, col, ties_reversed, lo, hi) ==
  IF lo > hi THEN lo
  ELSE LET mid == (lo + hi) \div 2
       IN  IF SortsAfter(sorted[mid], r, col, ties_reversed)
           THEN InsertPos(sorted, r, col, ties_reversed, lo, mid - 1)
           ELSE InsertPos(sorted, r, col, ties_reversed, mid + 1, hi)

Insert(sorted, r, col, ties_reversed) ==
  LET pos == InsertPos(sorted, r, col, ties_reversed, 1, Len(sorted))
  IN  SubSeq(sorted, 1, pos - 1) \o <<r>> \o SubSeq(sorted, pos, Len(sorted))

\* rows.sort_values(by=col, ascending=False).reset_index(drop=True): a new
\* table, the argument is left as it is.
SortValuesDesc(rows, col, ties_reversed) ==
  FoldRange(LAMBDA sorted, i : Insert(sorted, rows[i], col, ties_reversed),
            <<>>, 1, Len(rows))

\* a[lo] + ... + a[hi] added to acc one after the other.
SeqSum(a, lo, hi, acc) == FoldRange(LAMBDA x, i : FAdd(x, a[i]), acc, lo, hi)

\* One of the eight accumulators of numpy's unrolled loop: acc, then a[lo],
\* a[lo + 8], ... added to it, `blocks` elements in all.
Lane(a, lo, blocks, acc) ==
  FoldRange(LAMBDA x, b : FAdd(x, a[lo + 8 * (b - 1)]), acc, 1, blocks)

\* Series.sum() of a float column: numpy's add.reduce, a pairwise sum of the
\* n elements from a[lo] on (sequential under 8 elements, eight accumulators
\* up to 128, halves beyond).
RECURSIVE PairwiseSum(_, _, _)
PairwiseSum(a, lo, n) ==
  IF n < 8 THEN SeqSum(a, lo, lo + n - 1, FZero)
  ELSE IF n <= 128 THEN
    LET blocks == n \div 8
        r == [j \in 0..7 |-> Lane(a, lo + j + 8, blocks - 1, a[lo + j])]
        res == FAdd(FAdd(FAdd(r[0], r[1]), FAdd(r[2], r[3])),
                    FAdd(FAdd(r[4], r[5]), FAdd(r[6], r[7])))
    IN  SeqSum(a, lo + 8 * blocks, lo + n - 1, res)
  ELSE
    LET half == n \div 2
        n2 == half - (half % 8)
    IN  FAdd(PairwiseSum(a, lo, n2), PairwiseSum(a, lo + n2, n - n2))

FloatSum(a) == PairwiseSum(a, 1, Len(a))

\* A cumulative sum that does not carry the running total.
CumSumNoCarry(a) == [i \in 1..Len(a) |-> a[i]]

\* Series.cumsum(): out[i] = out[i - 1] + a[i].
CumSum(a) ==
  FoldRange(LAMBDA out, i :
              Append(out, IF i = 1 THEN a[1] ELSE FAdd(out[i - 1], a[i])),
            <<>>, 1, Len(a))

\* main.py:75-78, the Pareto view of table rows.
ParetoView(rows, ties_reversed) ==
  LET sorted == SortValuesDesc(rows, "under_utilized_rate_normalized", ties_reversed)
      total_sum == FloatSum(Column(sorted, "total_idle_pct"))
      cumulative_sum == CumSum(Column(sorted, "total_idle_pct"))
  IN  [i \in 1..Len(sorted) |->
         WithField(
           WithField(sorted[i], "cumulative_sum", cumulative_sum[i]),
           "cumulative_percent",
           FMul(FDiv(cumulative_sum[i], total_sum), FromInt(100)))]

\* main.py:111-113, the heatmap view of the snapshot.
HeatmapView(rows, ties_reversed) ==
  SortValuesDesc(rows, "utilization_rate_normalized", ties_reversed)

\* A reshape in column-major order (order="F").
ReshapeColumnMajor(values, g) ==
  [r \in 1..g |-> [c \in 1..g |-> values[(c - 1) * g + r]]]

\* values.reshape(g, g): row-major.
Reshape(values, g) == [r \in 1..g |-> [c \in 1..g |-> values[(r - 1) * g + c]]]

\* main.py:117-119
GridError ==
  [type |-> "ValueError",
   message |-> "Number of machines must be " \o ToString(grid_size * grid_size)
                 \o " for a square grid."]

\* DataFrame.to_csv(path, index=False): the header and the rows.
CsvOf(rows) ==
  [columns |-> <<"machine_name", "target_util_rate", "total_hours_year",
                 "idle_hours_year", "utilized_hours_year", "utilization_rate",
                 "utilization_rate_normalized", "under_utilized_rate_normalized",
                 "total_idle_pct">>,
   rows |-> rows]

EntropyStates == 0..MaxEntropy

MainBlank ==
  /\ pc = "start"
  /\ names = <<>>
  /\ df = <<>>
  /\ df_raw = <<>>
  /\ df_pareto = <<>>
  /\ df_heatmap = <<>>
  /\ z_data = <<>>
  /\ fig = <<>>
  /\ error = NoError

InitNames ==
  /\ u_pc = "ready"
  /\ u_count = 0
  /\ machine_names = <<>>

\* The process as it starts: both generators seeded from the system's entropy
\* by their imports (main.py:1-2), no file written yet.
Init ==
  /\ InitNames
  /\ MainBlank
  /\ machine_count \in 0..MaxCount
  /\ py_rng \in EntropyStates
  /\ np_rng \in EntropyStates
  /\ csv_file = NotWritten
  /\ html_file = NotWritten

\* main.py:14-16: random.seed(42); names = generate_toy_story_machine_names(count)
SeedAndNames ==
  /\ pc = "start"
  /\ py_rng' = PySeed(seed)
  /\ names' = placeholder_machine_names(machine_count)
  /\ pc' = "names"
  /\ UNCHANGED u_vars
  /\ UNCHANGED <<machine_count, np_rng, df, df_raw, csv_file, df_pareto,
                 df_heatmap, z_data, fig, html_file, error>>

\* main.py:18-48: the table and its derived columns.
Synthesize ==
  /\ pc = "names"
  /\ LET targets == Choices(target_choices, Len(names), py_rng)
         samples == Pareto(Len(names), np_rng)
     IN  /\ df' = Table(names, targets.out, samples.out)
         /\ py_rng' = targets.state
         /\ np_rng' = samples.state
  /\ pc' = "table"
  /\ UNCHANGED u_vars
  /\ UNCHANGED <<machine_count, names, df_raw, csv_file, df_pareto,
                 df_heatmap, z_data, fig, html_file, error>>

\* main.py:50-51: df_raw = df.copy(); df_raw.to_csv(...)
ExportCsv ==
  /\ pc = "table"
  /\ df_raw' = df
  /\ csv_file' = Written(CsvOf(df))
  /\ pc' = "exported"
  /\ UNCHANGED u_vars
  /\ UNCHANGED <<machine_count, py_rng, np_rng, names, df, df_pareto,
                 df_heatmap, z_data, fig, html_file, error>>

\* main.py:62-108: the figure, the Pareto view and its two traces.
BuildPareto ==
  /\ pc = "exported"
  /\ \E ties_reversed \in BOOLEAN :
       LET view == ParetoView(df, ties_reversed)
       IN  /\ df_pareto' = view
           /\ fig' = <<[type |-> "Bar",
                        x |-> Column(view, "machine_name"),
                        y |-> Column(view, "under_utilized_rate_normalized")],
                       [type |-> "Scatter",
                        x |-> Column(view, "machine_name"),
                        y |-> Column(view, "cumulative_percent")]>>
  /\ pc' = "pareto"
  /\ UNCHANGED u_vars
  /\ UNCHANGED <<machine_count, py_rng, np_rng, names, df, df_raw, csv_file,
                 df_heatmap, z_data, html_file, error>>

\* The sort done in place on the snapshot (sort_values(..., inplace=True)).
SortHeatmapInPlace ==
  /\ pc = "pareto"
  /\ \E ties_reversed \in BOOLEAN :
       /\ df_heatmap' = HeatmapView(df_raw, ties_reversed)
       /\ df_raw' = df_heatmap'
  /\ pc' = "sorted"
  /\ UNCHANGED u_vars
  /\ UNCHANGED <<machine_count, py_rng, np_rng, names, df, csv_file,
                 df_pareto, z_data, fig, html_file, error>>

\* main.py:111-113
SortHeatmap ==
  /\ pc = "pareto"
  /\ \E ties_reversed \in BOOLEAN :
       df_heatmap' = HeatmapView(df_raw, ties_reversed)
  /\ pc' = "sorted"
  /\ UNCHANGED u_vars
  /\ UNCHANGED <<machine_count, py_rng, np_rng, names, df, df_raw, csv_file,
                 df_pareto, z_data, fig, html_file, error>>

\* The size check reports the error and the script goes on.
WarnGridError ==
  /\ pc = "sorted"
  /\ Len(df_heatmap) # grid_size * grid_size
  /\ error' = GridError
  /\ pc' = "grid"
  /\ UNCHANGED u_vars
  /\ UNCHANGED <<machine_count, py_rng, np_rng, names, df, df_raw, csv_file,
                 df_pareto, df_heatmap, z_data, fig, html_file>>

\* main.py:115-119: the size check fails, the ValueError ends the run.
RaiseGridError ==
  /\ pc = "sorted"
  /\ Len(df_heatmap) # grid_size * grid_size
  /\ error' = GridError
  /\ pc' = "aborted"
  /\ UNCHANGED u_vars
  /\ UNCHANGED <<machine_count, py_rng, np_rng, names, df, df_raw, csv_file,
                 df_pareto, df_heatmap, z_data, fig, html_file>>

\* main.py:115-145: the size check passes; the grid and the heatmap trace.
\* (hover_text, a second grid of labels, is left out.)
BuildGrid ==
  /\ pc = "sorted"
  /\ Len(df_heatmap) = grid_size * grid_size
  /\ z_data' = Reshape(Column(df_heatmap, "utilization_rate_normalized"), grid_size)
  /\ fig' = Append(fig, [type |-> "Heatmap", z |-> z_data'])
  /\ pc' = "grid"
  /\ UNCHANGED u_vars
  /\ UNCHANGED <<machine_count, py_rng, np_rng, names, df, df_raw, csv_file,
                 df_pareto, df_heatmap, html_file, error>>

\* main.py:148-204: the layout, then fig.write_html(...)
WriteHtml ==
  /\ pc = "grid"
  /\ html_file' = Written(fig)
  /\ pc' = "done"
  /\ UNCHANGED u_vars
  /\ UNCHANGED <<machine_count, py_rng, np_rng, names, df, df_raw, csv_file,
                 df_pareto, df_heatmap, z_data, fig, error>>

Next ==
  \/ SeedAndNames
  \/ Synthesize
  \/ ExportCsv
  \/ BuildPareto
  \/ SortHeatmap
  \/ RaiseGridError
  \/ BuildGrid
  \/ WriteHtml

Spec == Init /\ [][Next]_vars

\* The counts the script is run with when it is run more than once.
MaxRerunCount == 2
RerunCounts == (0..MaxRerunCount) \cup {grid_size * grid_size}

InitRerun ==
  /\ InitNames
  /\ MainBlank
  /\ machine_count \in RerunCounts
  /\ py_rng \in EntropyStates
  /\ np_rng \in EntropyStates
  /\ csv_file = NotWritten
  /\ html_file = NotWritten

\* The script has ended (main.py:204, or the ValueError of main.py:117) and is
\* started again: a new process, its generators seeded from the system's
\* entropy by the imports, the two files as the earlier run left them.
Restart ==
  /\ pc \in {"done", "aborted"}
  /\ pc' = "start"
  /\ names' = <<>>
  /\ df' = <<>>
  /\ df_raw' = <<>>
  /\ df_pareto' = <<>>
  /\ df_heatmap' = <<>>
  /\ z_data' = <<>>
  /\ fig' = <<>>
  /\ error' = NoError
  /\ py_rng' \in EntropyStates
  /\ np_rng' \in EntropyStates
  /\ UNCHANGED u_vars
  /\ UNCHANGED <<machine_count, csv_file, html_file>>

NextRerun ==
  \/ SeedAndNames
  \/ Synthesize
  \/ ExportCsv
  \/ BuildPareto
  \/ SortHeatmap
  \/ RaiseGridError
  \/ BuildGrid
  \/ WriteHtml
  \/ Restart

SpecRerun == InitRerun /\ [][NextRerun]_vars

\* One call generate_toy_story_machine_names(count), utils.py:6-200.
GenerateNames ==
  /\ u_pc = "ready"
  /\ \E shuffled \in Shuffle(all_combinations) :
       \E count \in Counts :
         /\ u_count' = count
         /\ machine_names' = generate_toy_story_machine_names(count, shuffled)
  /\ u_pc' = "returned"
  /\ UNCHANGED m_vars

InitNamesOnly ==
  /\ InitNames
  /\ MainBlank
  /\ machine_count = 0
  /\ py_rng = 0
  /\ np_rng = 0
  /\ csv_file = NotWritten
  /\ html_file = NotWritten

NextNames == GenerateNames

SpecNames == InitNamesOnly /\ [][NextNames]_vars

(***************************************************************************)
(* The claims.                                                             *)
(***************************************************************************)

Range(f) == {f[i] : i \in DOMAIN f}
PoolNames == {FormatName(<<p, q>>) : p \in Range(PrefixesUsed), q \in Range(SuffixesUsed)}

\* C1: for every count with 0 <= count <= pool size, the call returns exactly
\* count names, no two of them equal, each of them prefix-suffix for a prefix
\* and a suffix of the lists, whatever the shuffle did.
C1_CountUniqueNamesFromPool ==
  (u_pc = "returned" /\ 0 <= u_count /\ u_count <= PoolSize) =>
    /\ Len(machine_names) = u_count
    /\ \A i, j \in 1..Len(machine_names) :
         machine_names[i] = machine_names[j] => i = j
    /\ \A i \in 1..Len(machine_names) : machine_names[i] \in PoolNames

\* A call for all but one name of the pool, whose first name is not the first
\* pair of the product: the shuffle has moved it.
C1_Witness ==
  /\ u_pc = "returned"
  /\ u_count = PoolSize - 1
  /\ Len(machine_names) = PoolSize - 1
  /\ machine_names[1] # FormatName(all_combinations[1])

\* C2: for every count above the pool size, the call returns the whole pool,
\* every pair once, and no more.
C2_OverflowReturnsWholePool ==
  (u_pc = "returned" /\ u_count > PoolSize) =>
    /\ Len(machine_names) = PoolSize
    /\ Range(machine_names) = PoolNames
    /\ Cardinality(PoolNames) = PoolSize

\* A call for more names than the pool holds has returned.
C2_Witness ==
  /\ u_pc = "returned"
  /\ u_count = PoolSize + 1
  /\ Len(machine_names) = PoolSize

\* C3: a run is reproducible from its seed: a run that overwrites the CSV
\* export of an earlier run of the same script (same seed, same count)
\* writes the same table.
C3_SameSeedSameTable ==
  [][(pc = "table" /\ csv_file # NotWritten) => csv_file' = csv_file]_vars

\* C4: in every row idle_hours_year >= min_idle_hours and
\* 0 <= utilized_hours_year <= total_hours_year, and utilized_hours_year is
\* total_hours_year - idle_hours_year whenever that lies in the range.
C4_IdleFloorAndClampedUtilized ==
  \A i \in 1..Len(df) :
    LET r == df[i]
        diff == r.total_hours_year - r.idle_hours_year
    IN  /\ r.idle_hours_year >= min_idle_hours
        /\ 0 <= r.utilized_hours_year
        /\ r.utilized_hours_year <= r.total_hours_year
        /\ r.total_hours_year = total_hours_year
        /\ (0 <= diff /\ diff <= r.total_hours_year) => r.utilized_hours_year = diff

\* A table with a row whose idle hours exceed the year (utilized hours clamped
\* to 0) and a row whose idle hours do not.
C4_Witness ==
  /\ pc = "table"
  /\ \E i \in 1..Len(df) :
       /\ df[i].idle_hours_year > df[i].total_hours_year
       /\ df[i].utilized_hours_year = 0
  /\ \E i \in 1..Len(df) :
       /\ df[i].idle_hours_year < df[i].total_hours_year
       /\ df[i].utilized_hours_year > 0

IsPerfectSquare(n) == \E k \in 0..n : k * k = n
PastGridCheck == pc \in {"grid", "done", "aborted"}
HeatmapBuilt == pc \in {"grid", "done"}

\* z_data read row by row.
Flat(z) == [k \in 1..(grid_size * grid_size) |->
              z[((k - 1) \div grid_size) + 1][((k - 1) % grid_size) + 1]]

\* C5 as claimed: the heatmap is built exactly when the length of the sorted
\* table is a perfect square.
C5_BuiltIffPerfectSquare ==
  PastGridCheck => (HeatmapBuilt <=> IsPerfectSquare(Len(df_heatmap)))

\* C5 as amended: the heatmap is built exactly when the length of the sorted
\* table is grid_size * grid_size (100): the grid then has grid_size rows of
\* grid_size cells, the sorted values row by row in descending order; for
\* every other length the run ends in the ValueError whose message names 100.
C5_BuiltIffGridSizeSquared ==
  /\ HeatmapBuilt =>
       /\ Len(df_heatmap) = grid_size * grid_size
       /\ error = NoError
       /\ Len(z_data) = grid_size
       /\ \A r \in 1..grid_size : Len(z_data[r]) = grid_size
       /\ Flat(z_data) = Column(df_heatmap, "utilization_rate_normalized")
       /\ \A k \in 1..(grid_size * grid_size - 1) :
            FLe(Flat(z_data)[k + 1], Flat(z_data)[k])
  /\ pc = "aborted" =>
       /\ Len(df_heatmap) # grid_size * grid_size
       /\ z_data = <<>>
       /\ error.type = "ValueError"
       /\ error.message = "Number of machines must be 100 for a square grid."
  /\ pc = "sorted" => error = NoError

\* The grid is built and its first cell is above its last.
C5_Witness ==
  /\ pc = "grid"
  /\ FLt(z_data[grid_size][grid_size], z_data[1][1])
  /\ FLt(z_data[2][1], z_data[1][grid_size])

\* C6: once the run has raised its error no file is written: the step that
\* raises it and every step after it leave both files as they were, and the
\* HTML file is written only by a run that raised no error.
C6_ErrorLeavesFilesUntouched ==
  [][((error # NoError \/ error' # NoError) =>
        (csv_file' = csv_file /\ html_file' = html_file))
     /\ ((html_file' # html_file) => (error = NoError /\ error' = NoError))]_vars

\* The run failed at the heatmap check: the CSV written before it is there,
\* the HTML file is not.
C6_Witness ==
  /\ pc = "aborted"
  /\ error # NoError
  /\ csv_file # NotWritten
  /\ Len(csv_file[1].rows) > 0
  /\ html_file = NotWritten

\* C7: when the sum of idle_hours_year over all rows is zero, computing
\* total_idle_pct aborts the run, and the CSV export is not written.
C7_ZeroIdleSumAborts ==
  (pc \notin {"start", "names"} /\ IntSum(df, "idle_hours_year") = 0) =>
    (pc = "aborted" /\ error # NoError /\ csv_file = NotWritten)

\* C8: once the snapshot is taken, building the Pareto view and the heatmap
\* view leaves it as it is: same rows, same order, same columns, same values.
C8_RawSnapshotUnchanged ==
  [][(pc \in {"exported", "pareto", "sorted", "grid", "done", "aborted"})
       => (df_raw' = df_raw)]_vars

\* Both views are built, the Pareto view has its cumulative columns, the
\* snapshot does not, and the heatmap view's order is not the snapshot's.
C8_Witness ==
  /\ pc = "sorted"
  /\ Len(df_raw) >= 2
  /\ Column(df_heatmap, "machine_name") # Column(df_raw, "machine_name")
  /\ Column(df_pareto, "machine_name") # Column(df_raw, "machine_name")
  /\ "cumulative_percent" \in DOMAIN df_pareto[1]
  /\ "cumulative_percent" \notin DOMAIN df_raw[1]
  /\ csv_file = Written(CsvOf(df_raw))

ParetoBuilt == pc \in {"pareto", "sorted", "grid", "done", "aborted"}
Hundred == FromInt(100)

\* The distance of float x from 100.0, in units of 2^UlpExp(x).
UlpExp(x) == Min(x.e, Hundred.e)
DistFromHundred(x) ==
  Abs(x.m * 2^(x.e - UlpExp(x)) - Hundred.m * 2^(Hundred.e - UlpExp(x)))

\* x is within k units in the last place of 100.0.
WithinUlpsOfHundred(x, k) ==
  /\ x.e <= Hundred.e + 1
  /\ DistFromHundred(x) <= k * 2^(Hundred.e - UlpExp(x))

NonDecreasing(a) == \A i \in 1..(Len(a) - 1) : FLe(a[i], a[i + 1])
NonIncreasing(a) == \A i \in 1..(Len(a) - 1) : FLe(a[i + 1], a[i])

\* C9 as claimed: in the Pareto view cumulative_percent is non-decreasing and
\* its value at the last row is 100.
C9_LastCumulativePercentIs100 ==
  (ParetoBuilt /\ Len(df_pareto) >= 1) =>
    /\ NonDecreasing(Column(df_pareto, "cumulative_percent"))
    /\ df_pareto[Len(df_pareto)].cumulative_percent = Hundred

\* C9 as amended: in the Pareto view, sorted descending by
\* under_utilized_rate_normalized, cumulative_percent is non-decreasing and
\* its value at the last row is 100 up to rounding: within 2 * n units in the
\* last place of 100.0 for a table of n rows.
C9_LastCumulativePercentNear100 ==
  (ParetoBuilt /\ Len(df_pareto) >= 1) =>
    /\ NonIncreasing(Column(df_pareto, "under_utilized_rate_normalized"))
    /\ NonDecreasing(Column(df_pareto, "cumulative_percent"))
    /\ WithinUlpsOfHundred(df_pareto[Len(df_pareto)].cumulative_percent,
                           2 * Len(df_pareto))

\* A Pareto view whose cumulative_percent rises from its first row to its
\* last and ends beside 100, not on it.
C9_Witness ==
  /\ pc = "pareto"
  /\ Len(df_pareto) >= 8
  /\ FLt(df_pareto[1].cumulative_percent,
         df_pareto[Len(df_pareto)].cumulative_percent)
  /\ df_pareto[Len(df_pareto)].cumulative_percent # Hundred

\* C10: the lists a call of generate_toy_story_machine_names builds its pool
\* from hold 63 prefixes and 63 suffixes, a pool of 3969 names.
C10_PoolIs63Times63 ==
  u_pc = "returned" =>
    /\ Len(prefixes) = 63
    /\ Len(suffixes) = 63
    /\ FullPoolSize = 3969

====
